---- MODULE Spec2Model ----
(***************************************************************************)
(* Model of src/experiment.py: the Workflow / Task graph builder.          *)
(*                                                                         *)
(* Python strings are sequences of one-character strings, so that          *)
(* formatting ("{0}_{1}".format), splitting on "=" and the regular         *)
(* expression search for a dollar sign are computed, not assumed.  A       *)
(* Python dict is the sequence of its <<key, value>> items in insertion    *)
(* order.                                                                  *)
(***************************************************************************)
EXTENDS Integers, Sequences, FiniteSets, TLC

VARIABLES wf, pending, call, err, ret, file

vars == <<wf, pending, call, err, ret, file>>

----------------------------------------------------------------------------
(* Bounds of the model *)

\* tasks that callers attach one by one, over both workflows
MaxTasks == 2
\* tasks of a host workflow after an embedding
MaxHost == 3
\* dependency edges that callers add with addDependency, over all tasks
MaxEdges == 1
\* entries of an arguments mapping handed to the Task constructor
MaxArgs == 2

----------------------------------------------------------------------------
(* Python values *)

None == <<"None">>
Absent == <<"absent">>
NoTask == [name |-> <<"no task">>]
NoFile == [name |-> <<"no file">>]
EmptyDict == <<>>

US == <<"_">>
EQ == <<"=">>

\* "{0}".format(v): None prints as the text None, an int as its digits
Format(v) == IF v = None THEN <<"N", "o", "n", "e">> ELSE v
FormatInt(n) == <<ToString(n)>>

\* dict operations on sequences of <<key, value>> items
DictHas(d, k) == \E i \in 1..Len(d) : d[i][1] = k
DictGet(d, k) == d[CHOOSE i \in 1..Len(d) : d[i][1] = k][2]
DictPut(d, k, v) ==
    IF DictHas(d, k)
    THEN [i \in 1..Len(d) |-> IF d[i][1] = k THEN <<k, v>> ELSE d[i]]
    ELSE Append(d, <<k, v>>)

SeqToSet(s) == {s[i] : i \in 1..Len(s)}

\* error messages of the source, grouped under the error kinds of the specification
OK == "ok"
DuplicateNameError == "task already exists"
UnresolvedDependencyError == "dependency not fulfilled"
TypeError == "TypeError: 'Task' object is not subscriptable"
ConfigError == {"Unknown Task argument", "argument must be string", "task must be Task object",
                "name must be string", "Wrong workflow or same workflows",
                "dependency must be a list", "Wrong dependency arguments",
                "workflowname must contain more than 1 characters"}
NotFoundError == "File does not exist"
FormatError == "File is not a valid JSON"
MissingFieldError == "Workflow doesn't have a key"
IndexError == "IndexError: list index out of range"

----------------------------------------------------------------------------
(* class Task *)

TaskAttributes == {<<"r", "u", "n">>, <<"o", "n", "_", "e", "x", "i", "t">>,
                   <<"o", "n", "_", "e", "r", "r", "o", "r">>}

\* Task.__init__: the error raised for the keyword options, or OK
TaskInitError(kwargs) ==
    IF \E i \in 1..Len(kwargs) : kwargs[i][1] \notin TaskAttributes
    THEN "Unknown Task argument" ELSE OK

\* Task.__init__: the constructed object
Task(operator, arguments, name, kwargs) ==
    [type |-> "ophidia",
     name |-> name,
     operator |-> operator,
     arguments |-> [i \in 1..Len(arguments) |-> arguments[i][1] \o EQ \o arguments[i][2]],
     dependencies |-> <<>>,
     options |-> kwargs]

\* Task.addDependency.parameter_check; a target is [isTask, name]
addDependencyError(target, argument) ==
    IF argument = None THEN "argument must be string"
    ELSE IF ~target.isTask THEN "task must be Task object"
    ELSE OK

\* Task.addDependency: the edge it appends
dependency_dict(target, argument) ==
    IF argument = <<>>
    THEN [type |-> "embedded", argument |-> Absent, task |-> target.name]
    ELSE [type |-> "all", argument |-> argument, task |-> target.name]

addDependency(self, target, argument) ==
    [self EXCEPT !.dependencies = Append(@, dependency_dict(target, argument))]

copyDependency(self, dependency) ==
    [self EXCEPT !.dependencies = Append(@, dependency)]

\* str.split("="): the list of the pieces between separators
RECURSIVE split(_, _)
split(s, sep) ==
    IF \A i \in 1..Len(s) : s[i] # sep
    THEN <<s>>
    ELSE LET p == CHOOSE i \in 1..Len(s) : s[i] = sep /\ \A j \in 1..(i - 1) : s[j] # sep
         IN <<SubSeq(s, 1, p - 1)>> \o split(SubSeq(s, p + 1, Len(s)), sep)

\* reverted_arguments that leaves out the arguments with an empty value
reverted_arguments_SkipsEmpty(self) ==
    LET RECURSIVE from(_, _)
        from(args, acc) ==
            IF args = <<>> THEN acc
            ELSE LET parts == split(Head(args), "=")
                 IN from(Tail(args), IF parts[2] = <<>> THEN acc
                                     ELSE DictPut(acc, parts[1], parts[2]))
    IN from(self.arguments, EmptyDict)

\* Task.reverted_arguments
RECURSIVE reverted_from(_, _)
reverted_from(args, acc) ==
    IF args = <<>> THEN acc
    ELSE LET parts == split(Head(args), "=")
         IN reverted_from(Tail(args), DictPut(acc, parts[1], parts[2]))

reverted_arguments(self) == reverted_from(self.arguments, EmptyDict)

----------------------------------------------------------------------------
(* class Workflow *)

Workflow(name, author, abstract, kwargs) ==
    [name |-> name, author |-> author, abstract |-> abstract, options |-> kwargs,
     tasks |-> <<>>, task_name_counter |-> 1]

TaskNames(w) == [i \in 1..Len(w.tasks) |-> w.tasks[i].name]

\* addTask without the check of the name against the attached names
addTask_NoDuplicateCheck(self, task) ==
    LET named == IF task.name = None
                 THEN [task EXCEPT !.name = self.name \o US \o FormatInt(self.task_name_counter)]
                 ELSE task
        names == SeqToSet(TaskNames(self))
    IN IF \E i \in 1..Len(named.dependencies) : named.dependencies[i].task \notin names
       THEN [wf |-> self, task |-> named, err |-> UnresolvedDependencyError]
       ELSE [wf |-> [self EXCEPT !.task_name_counter = @ + 1, !.tasks = Append(@, named)],
             task |-> named, err |-> OK]

\* addTask without the check of the dependency edges
addTask_NoDependencyCheck(self, task) ==
    LET named == IF task.name = None
                 THEN [task EXCEPT !.name = self.name \o US \o FormatInt(self.task_name_counter)]
                 ELSE task
        names == SeqToSet(TaskNames(self))
    IN IF named.name \in names
       THEN [wf |-> self, task |-> named, err |-> DuplicateNameError]
       ELSE [wf |-> [self EXCEPT !.task_name_counter = @ + 1, !.tasks = Append(@, named)],
             task |-> named, err |-> OK]

\* addTask that advances the counter when it generates the name, before the checks
addTask_CountsBeforeChecks(self, task) ==
    LET named == IF task.name = None
                 THEN [task EXCEPT !.name = self.name \o US \o FormatInt(self.task_name_counter)]
                 ELSE task
        counted == IF task.name = None
                   THEN [self EXCEPT !.task_name_counter = @ + 1] ELSE self
        names == SeqToSet(TaskNames(self))
    IN IF named.name \in names
       THEN [wf |-> counted, task |-> named, err |-> DuplicateNameError]
       ELSE IF \E i \in 1..Len(named.dependencies) : named.dependencies[i].task \notin names
       THEN [wf |-> counted, task |-> named, err |-> UnresolvedDependencyError]
       ELSE [wf |-> [self EXCEPT !.task_name_counter = @ + 1, !.tasks = Append(@, named)],
             task |-> named, err |-> OK]

\* addTask that advances the counter only when it generated the name
addTask_CountsUnnamedOnly(self, task) ==
    LET named == IF task.name = None
                 THEN [task EXCEPT !.name = self.name \o US \o FormatInt(self.task_name_counter)]
                 ELSE task
        names == SeqToSet(TaskNames(self))
    IN IF named.name \in names
       THEN [wf |-> self, task |-> named, err |-> DuplicateNameError]
       ELSE IF \E i \in 1..Len(named.dependencies) : named.dependencies[i].task \notin names
       THEN [wf |-> self, task |-> named, err |-> UnresolvedDependencyError]
       ELSE [wf |-> [self EXCEPT !.task_name_counter = IF task.name = None THEN @ + 1 ELSE @,
                                 !.tasks = Append(@, named)],
             task |-> named, err |-> OK]

\* addTask that takes the generated name back when it refuses the task
addTask_RollsBackName(self, task) ==
    LET named == IF task.name = None
                 THEN [task EXCEPT !.name = self.name \o US \o FormatInt(self.task_name_counter)]
                 ELSE task
        names == SeqToSet(TaskNames(self))
    IN IF named.name \in names
       THEN [wf |-> self, task |-> task, err |-> DuplicateNameError]
       ELSE IF \E i \in 1..Len(named.dependencies) : named.dependencies[i].task \notin names
       THEN [wf |-> self, task |-> task, err |-> UnresolvedDependencyError]
       ELSE [wf |-> [self EXCEPT !.task_name_counter = @ + 1, !.tasks = Append(@, named)],
             task |-> named, err |-> OK]

\* Workflow.addTask, as a function of the workflow and the task object:
\* the workflow and the task after the call, and the error raised
addTask(self, task) ==
    LET named == IF task.name = None
                 THEN [task EXCEPT !.name = self.name \o US \o FormatInt(self.task_name_counter)]
                 ELSE task
        names == SeqToSet(TaskNames(self))
    IN IF named.name \in names
       THEN [wf |-> self, task |-> named, err |-> DuplicateNameError]
       ELSE IF \E i \in 1..Len(named.dependencies) : named.dependencies[i].task \notin names
       THEN [wf |-> self, task |-> named, err |-> UnresolvedDependencyError]
       ELSE [wf |-> [self EXCEPT !.task_name_counter = @ + 1, !.tasks = Append(@, named)],
             task |-> named, err |-> OK]

\* Workflow.getTask: [t for t in self.tasks if t["name"] == taskname] subscripts a
\* Task object as soon as the list has an element
getTask(self, taskname) ==
    IF Len(self.tasks) > 0
    THEN [ret |-> None, err |-> TypeError]
    ELSE LET tasks == SelectSeq(self.tasks, LAMBDA t : t.name = taskname)
         IN IF Len(tasks) = 1 THEN [ret |-> tasks[1], err |-> OK]
            ELSE [ret |-> None, err |-> OK]

\* Workflow.newTask: the loop over the dependencies map calls addDependency with
\* the key, a string, as the target
RECURSIVE newTask_dependencies(_, _, _)
newTask_dependencies(t, dependencies, i) ==
    IF i > Len(dependencies) THEN [task |-> t, err |-> OK]
    ELSE LET k == [isTask |-> FALSE, name |-> dependencies[i][1]]
             argument == IF dependencies[i][2] \notin {None, <<>>} THEN dependencies[i][2] ELSE None
             e == addDependencyError(k, argument)
         IN IF e # OK THEN [task |-> t, err |-> e]
            ELSE newTask_dependencies(addDependency(t, k, argument), dependencies, i + 1)

newTask(self, operator, arguments, dependencies, name, kwargs) ==
    LET t == Task(operator, arguments, name, <<>>)
        d == newTask_dependencies(t, dependencies, 1)
        a == addTask(self, [d.task EXCEPT !.options = kwargs])
    IN IF d.err # OK THEN [wf |-> self, ret |-> None, err |-> d.err]
       ELSE IF TaskInitError(kwargs) # OK THEN [wf |-> self, ret |-> None, err |-> TaskInitError(kwargs)]
       ELSE IF a.err # OK THEN [wf |-> self, ret |-> None, err |-> a.err]
       ELSE [wf |-> a.wf, ret |-> a.task, err |-> OK]

----------------------------------------------------------------------------
(* Workflow.newSubWorkflow *)

parameter_check(params, dependency, name) ==
    IF name = None THEN "name must be string" ELSE OK

validate_workflow(w1, w2) ==
    IF w1.name = w2.name THEN "Wrong workflow or same workflows" ELSE OK

\* a value handed to dependency_check is [isDict, items]
dependency_check(dependency) ==
    IF ~dependency.isDict THEN "dependency must be a list"
    ELSE IF Len(dependency.items) > 2 THEN "Wrong dependency arguments"
    ELSE IF Len(dependency.items) = 2
         THEN IF ~DictHas(dependency.items, <<"t", "a", "s", "k">>)
                 \/ ~DictHas(dependency.items, <<"a", "r", "g", "u", "m", "e", "n", "t">>)
              THEN "Wrong dependency arguments" ELSE OK
    ELSE IF ~DictHas(dependency.items, <<"t", "a", "s", "k">>)
         THEN "Wrong dependency arguments" ELSE OK

\* "for dependency in dependencies" walks the keys of the dict: each element is a string
RECURSIVE root_dependencies(_, _, _)
root_dependencies(elements, new_task, i) ==
    IF i > Len(elements) THEN [task |-> new_task, err |-> OK]
    ELSE LET dependency == elements[i]
             e == dependency_check(dependency)
             argument == IF Len(dependency.items) = 1 THEN None
                         ELSE DictGet(dependency.items, <<"a", "r", "g", "u", "m", "e", "n", "t">>)
             target == DictGet(dependency.items, <<"t", "a", "s", "k">>)
         IN IF e # OK THEN [task |-> new_task, err |-> e]
            ELSE IF addDependencyError(target, argument) # OK
            THEN [task |-> new_task, err |-> addDependencyError(target, argument)]
            ELSE root_dependencies(elements, addDependency(new_task, target, argument), i + 1)

find_root_tasks_add_dependencies(task, dependencies, new_task) ==
    IF Len(task.dependencies) = 0
    THEN root_dependencies([i \in 1..Len(dependencies) |-> [isDict |-> FALSE, items |-> <<>>]],
                           new_task, 1)
    ELSE [task |-> new_task, err |-> OK]

fix_dependency_name(dependency_name, prefix) ==
    Format(prefix) \o US \o Format(dependency_name)

RECURSIVE add_dependencies_from(_, _, _, _)
add_dependencies_from(task, new_task, prefix, i) ==
    IF i > Len(task.dependencies) THEN new_task
    ELSE LET d == task.dependencies[i]
             dep_dict == [d EXCEPT !.task = fix_dependency_name(d.task, prefix)]
         IN add_dependencies_from(task, copyDependency(new_task, dep_dict), prefix, i + 1)

add_dependencies(task, new_task, prefix) == add_dependencies_from(task, new_task, prefix, 1)

\* add_dependencies that rewrites the edge records of the template task themselves
\* (dep_dict = d) and hands them to the clone
add_dependencies_task_Shared(task, new_task, prefix) ==
    [task EXCEPT !.dependencies =
        [i \in 1..Len(@) |-> [@[i] EXCEPT !.task = fix_dependency_name(@, prefix)]]]

\* the template task after add_dependencies: dep_dict = dict(d) is a new dict, so
\* the assignment to dep_dict["task"] does not reach the records of task.dependencies
add_dependencies_task(task, new_task, prefix) == task

add_task_name(self, given_name, previous_name, task_id) ==
    IF given_name \notin {None, <<>>}
    THEN Format(given_name) \o US \o Format(previous_name)
    ELSE Format(self.name) \o US \o FormatInt(task_id) \o US \o Format(previous_name)

\* re.search('(\$.*)', s): the position of the first dollar sign, 0 without a match
search(s) ==
    IF \E i \in 1..Len(s) : s[i] = "$"
    THEN CHOOSE i \in 1..Len(s) : s[i] = "$" /\ \A j \in 1..(i - 1) : s[j] # "$"
    ELSE 0

\* re.findall('(\$.*)', s)[0]: from the first dollar sign to the end of the string
findall0(s) == SubSeq(s, search(s), Len(s))

\* re.sub('(\$.*)', repl, s)
sub(repl, s) == IF search(s) = 0 THEN s ELSE SubSeq(s, 1, search(s) - 1) \o repl

RECURSIVE replace_keys(_, _, _, _)
replace_keys(params, task_arguments, i, new_task_arguments) ==
    IF i > Len(task_arguments) THEN new_task_arguments
    ELSE LET k == task_arguments[i][1]
             v == task_arguments[i][2]
             nk == IF search(k) # 0 /\ DictHas(params, findall0(k))
                   THEN sub(DictGet(params, findall0(k)), k) ELSE k
         IN replace_keys(params, task_arguments, i + 1, DictPut(new_task_arguments, nk, v))

RECURSIVE replace_values(_, _, _, _)
replace_values(params, task_arguments, i, new_task_arguments) ==
    IF i > Len(task_arguments) THEN new_task_arguments
    ELSE LET k == task_arguments[i][1]
             v == task_arguments[i][2]
             nv == IF search(v) # 0 /\ DictHas(params, findall0(v))
                   THEN sub(DictGet(params, findall0(v)), v) ELSE v
         IN replace_values(params, task_arguments, i + 1, DictPut(new_task_arguments, k, nv))

check_replace_args(params, task_arguments) ==
    replace_values(params, task_arguments, 1,
                   replace_keys(params, task_arguments, 1, EmptyDict))

\* the loop of newSubWorkflow from template position i on; st is the host so far,
\* the template so far, all_tasks and non_leaf_tasks
RECURSIVE sub_loop(_, _, _, _, _, _)
sub_loop(st, tasks, i, params, dependency, name) ==
    IF i > Len(tasks) THEN st
    ELSE LET task == tasks[i]
             new_task_name == add_task_name(st.wf, name, task.name, i)
             new_arguments == check_replace_args(params, reverted_arguments(task))
             new_task == Task(task.operator, new_arguments, new_task_name, <<>>)
             r == find_root_tasks_add_dependencies(task, dependency, new_task)
             linked == add_dependencies(task, r.task, name)
             a == addTask(st.wf, linked)
             template == [st.workflow EXCEPT
                             !.tasks[i] = add_dependencies_task(task, r.task, name)]
         IN IF r.err # OK THEN [st EXCEPT !.err = r.err]
            ELSE IF a.err # OK
            THEN [st EXCEPT !.err = a.err, !.all_tasks = Append(@, linked),
                            !.workflow = template]
            ELSE sub_loop([wf |-> a.wf, workflow |-> template,
                           all_tasks |-> Append(st.all_tasks, linked),
                           non_leaf_tasks |-> st.non_leaf_tasks
                               \cup {task.dependencies[j].task : j \in 1..Len(task.dependencies)},
                           err |-> OK],
                          tasks, i + 1, params, dependency, name)

\* newSubWorkflow that detaches the clones when one of them is refused
newSubWorkflow_Atomic(self, workflow, params, dependency, name) ==
    LET st == sub_loop([wf |-> self, workflow |-> workflow, all_tasks |-> <<>>,
                        non_leaf_tasks |-> {}, err |-> OK],
                       workflow.tasks, 1, params, dependency, name)
    IN IF parameter_check(params, dependency, name) # OK
       THEN [wf |-> self, workflow |-> workflow, ret |-> None,
             err |-> parameter_check(params, dependency, name)]
       ELSE IF validate_workflow(self, workflow) # OK
       THEN [wf |-> self, workflow |-> workflow, ret |-> None,
             err |-> validate_workflow(self, workflow)]
       ELSE IF st.err # OK
       THEN [wf |-> self, workflow |-> st.workflow, ret |-> None, err |-> st.err]
       ELSE [wf |-> st.wf, workflow |-> st.workflow, err |-> OK,
             ret |-> SelectSeq(st.all_tasks, LAMBDA t : t.name \notin st.non_leaf_tasks)]

newSubWorkflow(self, workflow, params, dependency, name) ==
    LET st == sub_loop([wf |-> self, workflow |-> workflow, all_tasks |-> <<>>,
                        non_leaf_tasks |-> {}, err |-> OK],
                       workflow.tasks, 1, params, dependency, name)
    IN IF parameter_check(params, dependency, name) # OK
       THEN [wf |-> self, workflow |-> workflow, ret |-> None,
             err |-> parameter_check(params, dependency, name)]
       ELSE IF validate_workflow(self, workflow) # OK
       THEN [wf |-> self, workflow |-> workflow, ret |-> None,
             err |-> validate_workflow(self, workflow)]
       ELSE IF st.err # OK
       THEN [wf |-> st.wf, workflow |-> st.workflow, ret |-> None, err |-> st.err]
       ELSE [wf |-> st.wf, workflow |-> st.workflow, err |-> OK,
             ret |-> SelectSeq(st.all_tasks, LAMBDA t : t.name \notin st.non_leaf_tasks)]

----------------------------------------------------------------------------
(* Workflow.save and Workflow.load.  A file is [name, data]; the data of a JSON     *)
(* document is the record of its keys, and the tasks of a document are the records  *)
(* of the Task objects' fields.                                                     *)

JSON == <<".", "j", "s", "o", "n">>

endswith(s, suffix) ==
    Len(s) >= Len(suffix) /\ SubSeq(s, Len(s) - Len(suffix) + 1, Len(s)) = suffix

\* Workflow.save: the file it writes, and the error raised
save(self, workflowname) ==
    IF Len(workflowname) = 0
    THEN [file |-> NoFile, err |-> "workflowname must contain more than 1 characters"]
    ELSE [file |-> [name |-> IF endswith(workflowname, JSON) THEN workflowname
                             ELSE workflowname \o JSON,
                    data |-> [name |-> self.name, author |-> self.author,
                              abstract |-> self.abstract, options |-> self.options,
                              tasks |-> self.tasks]],
          err |-> OK]

\* {a.split("=")[0]: a.split("=")[1] for a in d["arguments"]}
load_arguments(arguments) == reverted_from(arguments, EmptyDict)

\* the Task that start_workflow builds from the task d of the document
load_task(d) ==
    [Task(d.operator, load_arguments(d.arguments), d.name, <<>>)
        EXCEPT !.type = d.type, !.dependencies = d.dependencies, !.options = d.options]

\* the loop of start_workflow from position i of the document's tasks on
RECURSIVE start_tasks(_, _, _)
start_tasks(workflow, tasks, i) ==
    IF i > Len(tasks) THEN [wf |-> workflow, err |-> OK]
    ELSE IF \E k \in 1..Len(tasks[i].arguments) : Len(split(tasks[i].arguments[k], "=")) < 2
    THEN [wf |-> workflow, err |-> IndexError]
    ELSE LET a == addTask(workflow, load_task(tasks[i]))
         IN IF a.err # OK THEN [wf |-> a.wf, err |-> a.err]
            ELSE start_tasks(a.wf, tasks, i + 1)

\* start_workflow that appends the tasks of the document without addTask
start_workflow_Unchecked(data) ==
    [wf |-> [Workflow(data.name, None, None, EmptyDict)
                EXCEPT !.author = data.author, !.abstract = data.abstract,
                       !.options = data.options,
                       !.tasks = [i \in 1..Len(data.tasks) |-> load_task(data.tasks[i])],
                       !.task_name_counter = Len(data.tasks) + 1],
     err |-> OK]

start_workflow(data) ==
    start_tasks([Workflow(data.name, None, None, EmptyDict)
                    EXCEPT !.author = data.author, !.abstract = data.abstract,
                           !.options = data.options],
                data.tasks, 1)

\* Workflow.load of the file named filename among files
load(files, filename) ==
    IF \A f \in files : f.name # filename THEN [ret |-> None, err |-> NotFoundError]
    ELSE LET data == (CHOOSE f \in files : f.name = filename).data
         IN IF "invalid" \in DOMAIN data THEN [ret |-> None, err |-> FormatError]
            ELSE IF "name" \notin DOMAIN data THEN [ret |-> None, err |-> MissingFieldError]
            ELSE IF start_workflow(data).err # OK
            THEN [ret |-> None, err |-> start_workflow(data).err]
            ELSE [ret |-> start_workflow(data).wf, err |-> OK]

----------------------------------------------------------------------------
(* The inputs the callers draw from *)

NamePool == {<<"A">>, <<"h", "_", "2">>}
Labels == {None, <<>>, <<"s">>}
\* wf[1] is the workflow named h, wf[2] the one named t; embeddings are made into h
WorkflowIds == {1, 2}
Hosts == {1}

\* the constructor calls Task(operator, arguments, name)
TaskChoices ==
    {[operator |-> <<"i", "f">>, arguments |-> EmptyDict, name |-> None],
     [operator |-> <<"i", "f">>, arguments |-> EmptyDict, name |-> <<"A">>],
     [operator |-> <<"m", "v">>, arguments |-> << <<(<<"$", "s">>), (<<"1", "0">>)>> >>,
      name |-> <<"A">>],
     [operator |-> <<"m", "v">>, arguments |-> << <<(<<"$", "s">>), (<<"1", "0">>)>> >>,
      name |-> <<"h", "_", "2">>],
     [operator |-> <<"m", "v">>, arguments |-> << <<(<<"k">>), (<<"a", "=", "b">>)>> >>,
      name |-> <<"A">>]}

KwargChoices == {EmptyDict, << <<(<<"b", "o", "g", "u", "s">>), (<<"1">>)>> >>}
ParamChoices == {EmptyDict, << <<(<<"$", "s">>), (<<"b">>)>> >>}

AttachedNames == UNION {SeqToSet(TaskNames(wf[w])) : w \in WorkflowIds}

\* the calls addDependency(target, argument): every attached task and the unattached
\* one as the target, with the argument x; a fresh Task(name="A") as the target, with
\* the argument omitted or empty; a bare name as the target
DependencyCalls ==
    {[target |-> [isTask |-> TRUE, name |-> n], argument |-> a] :
        n \in (IF pending = NoTask THEN {} ELSE {pending.name}) \cup AttachedNames,
        a \in {<<"x">>}}
    \cup {[target |-> [isTask |-> TRUE, name |-> <<"A">>], argument |-> a] :
             a \in {None, <<>>}}
    \cup {[target |-> [isTask |-> FALSE, name |-> <<"A">>], argument |-> <<"x">>]}

\* the dependency maps handed to newSubWorkflow on host self; X is its first task
DependencyChoices(self) ==
    LET task == <<"t", "a", "s", "k">>
        argument == <<"a", "r", "g", "u", "m", "e", "n", "t">>
        X == IF Len(self.tasks) = 0 THEN {}
             ELSE {[isTask |-> TRUE, name |-> self.tasks[1].name]}
    IN {EmptyDict, << <<argument, (<<"x">>)>> >>}
       \cup {<< <<task, x>> >> : x \in X}
       \cup {<< <<task, x>>, <<argument, (<<"x">>)>> >> : x \in X}
       \cup {<< <<task, x>>, <<argument, (<<"x">>)>>, <<(<<"e">>), (<<"y">>)>> >> : x \in X}

\* the calls newSubWorkflow(workflow, params, dependency, name) on host self: under
\* the label s every params with no dependency and every dependency with no params,
\* and the plain call under every label
PlainCall(name) == [params |-> EmptyDict, dependency |-> EmptyDict, name |-> name]

SubWorkflowCalls(self) ==
    {[params |-> p, dependency |-> EmptyDict, name |-> <<"s">>] : p \in ParamChoices}
    \cup {[params |-> EmptyDict, dependency |-> d, name |-> <<"s">>] :
             d \in DependencyChoices(self)}
    \cup {PlainCall(n) : n \in Labels}

\* the dependencies maps handed to newTask on workflow self
NewTaskDependencies(self) ==
    {EmptyDict}
    \cup (IF Len(self.tasks) = 0 THEN {}
          ELSE {<< <<self.tasks[1].name, a>> >> : a \in {None, <<"x">>}})

\* the names save is called with
SaveNames == {<<>>, <<"w">>}

\* the documents that were written by hand: d1 names a task twice, d2 has an edge
\* to a later task, d3 is in order, d4 names a task twice and has an edge to no
\* task, d5 has no name, d6 is not JSON
DocumentTask(name, targets) ==
    [type |-> "ophidia", name |-> name, operator |-> <<"i", "f">>,
     arguments |-> << <<"k", "=", "1">> >>,
     dependencies |-> [i \in 1..Len(targets) |->
                          [type |-> "embedded", argument |-> Absent, task |-> targets[i]]],
     options |-> EmptyDict]

Document(tasks) ==
    [name |-> <<"d">>, author |-> None, abstract |-> None, options |-> EmptyDict,
     tasks |-> tasks]

DocumentChoices ==
    {[name |-> <<"d", "1">>,
      data |-> Document(<<DocumentTask(<<"A">>, <<>>), DocumentTask(<<"A">>, <<>>)>>)],
     [name |-> <<"d", "2">>,
      data |-> Document(<<DocumentTask(<<"A">>, << <<"B">> >>), DocumentTask(<<"B">>, <<>>)>>)],
     [name |-> <<"d", "3">>,
      data |-> Document(<<DocumentTask(<<"A">>, <<>>), DocumentTask(<<"B">>, << <<"A">> >>)>>)],
     [name |-> <<"d", "4">>,
      data |-> Document(<<DocumentTask(<<"A">>, <<>>), DocumentTask(<<"A">>, << <<"Z">> >>)>>)],
     [name |-> <<"d", "5">>, data |-> [tasks |-> <<>>]],
     [name |-> <<"d", "6">>, data |-> [invalid |-> TRUE]]}

\* the files on disk, and the names load is called with
Files == DocumentChoices \cup (IF file = NoFile THEN {} ELSE {file})
LoadNames == {<<"w">> \o JSON} \cup {d.name : d \in DocumentChoices}

Edges(tasks) == LET RECURSIVE sum(_)
                    sum(i) == IF i > Len(tasks) THEN 0
                              ELSE Len(tasks[i].dependencies) + sum(i + 1)
                IN sum(1)

TotalEdges == Edges(wf[1].tasks) + Edges(wf[2].tasks)
              + (IF pending = NoTask THEN 0 ELSE Len(pending.dependencies))

TotalTasks == Len(wf[1].tasks) + Len(wf[2].tasks)

----------------------------------------------------------------------------
(* The state machine: one action per call.  call is the last call with the inputs  *)
(* that the state does not show, err the error it raised (OK for none), ret the    *)
(* value it returned.  pending is the caller's Task object that is not attached.   *)

\* A call that changed neither a workflow nor the task in hand is the last call of
\* a run: the calls that can follow it are those that follow the state before it.
\* The caller has one unattached Task in hand at a time, and makes the calls that do
\* not involve it (getTask, newTask, newSubWorkflow, save, load) while it has none.
\* The one call that follows a save is the load of the file it wrote.
Alive == call.changed

Init ==
    /\ wf = [w \in WorkflowIds |->
                IF w = 1 THEN Workflow(<<"h">>, <<"a">>, None, << <<(<<"r", "u", "n">>), (<<"y">>)>> >>)
                ELSE Workflow(<<"t">>, None, None, EmptyDict)]
    /\ pending = NoTask
    /\ file = NoFile
    /\ call = [op |-> "init", changed |-> TRUE]
    /\ err = OK
    /\ ret = None

\* t = Task(operator, arguments, name, **kwargs)
TaskInit ==
    \E c \in TaskChoices, kwargs \in KwargChoices :
        /\ Alive
        /\ call' = [op |-> "Task", changed |-> (TaskInitError(kwargs) = OK)]
        /\ err' = TaskInitError(kwargs)
        /\ pending' = IF TaskInitError(kwargs) = OK
                      THEN Task(c.operator, c.arguments, c.name, kwargs) ELSE pending
        /\ ret' = None
        /\ UNCHANGED <<wf, file>>

\* t.addDependency(target, argument) on the unattached task
AddDependencyPending ==
    \E c \in DependencyCalls :
        /\ Alive
        /\ pending # NoTask
        /\ TotalEdges < MaxEdges
        /\ call' = [op |-> "addDependency", target |-> c.target, argument |-> c.argument,
                    changed |-> (addDependencyError(c.target, c.argument) = OK)]
        /\ err' = addDependencyError(c.target, c.argument)
        /\ pending' = IF addDependencyError(c.target, c.argument) = OK
                      THEN addDependency(pending, c.target, c.argument) ELSE pending
        /\ ret' = None
        /\ UNCHANGED <<wf, file>>

\* t.addDependency(target, argument) on a task that is attached to workflow w
AddDependencyAttached ==
    \E w \in WorkflowIds, c \in DependencyCalls :
        \E i \in 1..Len(wf[w].tasks) :
            /\ Alive
            /\ TotalEdges < MaxEdges
            /\ call' = [op |-> "addDependency", target |-> c.target, argument |-> c.argument,
                        changed |-> (addDependencyError(c.target, c.argument) = OK)]
            /\ err' = addDependencyError(c.target, c.argument)
            /\ wf' = IF addDependencyError(c.target, c.argument) = OK
                     THEN [wf EXCEPT ![w].tasks[i] = addDependency(@, c.target, c.argument)]
                     ELSE wf
            /\ ret' = None
            /\ UNCHANGED <<pending, file>>

\* w.addTask(t) with the unattached task
AddTask ==
    \E w \in WorkflowIds :
        /\ Alive
        /\ pending # NoTask
        /\ TotalTasks < MaxTasks
        /\ LET r == addTask(wf[w], pending)
           IN /\ call' = [op |-> "addTask", w |-> w, unset |-> (pending.name = None),
                          changed |-> (r.err = OK \/ r.task # pending)]
              /\ err' = r.err
              /\ wf' = [wf EXCEPT ![w] = r.wf]
              /\ pending' = IF r.err = OK THEN NoTask ELSE r.task
              /\ ret' = None
              /\ UNCHANGED file

\* w.getTask(taskname)
GetTask ==
    \E w \in WorkflowIds, taskname \in {<<"A">>} :
        LET r == getTask(wf[w], taskname)
        IN /\ Alive
           /\ pending = NoTask
           /\ call' = [op |-> "getTask", w |-> w, taskname |-> taskname, changed |-> FALSE]
           /\ err' = r.err
           /\ ret' = r.ret
           /\ UNCHANGED <<wf, pending, file>>

\* w.newTask(operator, arguments, dependencies, name, **kwargs)
NewTask ==
    \E w \in WorkflowIds, c \in TaskChoices, kwargs \in KwargChoices :
        \E dependencies \in NewTaskDependencies(wf[w]) :
            /\ Alive
            /\ pending = NoTask
            /\ TotalTasks < MaxTasks
            /\ LET r == newTask(wf[w], c.operator, c.arguments, dependencies, c.name, kwargs)
               IN /\ call' = [op |-> "newTask", w |-> w, dependencies |-> dependencies,
                              name |-> c.name, kwargs |-> kwargs,
                              changed |-> (r.wf # wf[w])]
                  /\ err' = r.err
                  /\ ret' = r.ret
                  /\ wf' = [wf EXCEPT ![w] = r.wf]
                  /\ UNCHANGED <<pending, file>>

\* w.newSubWorkflow(workflow, params, dependency, name)
NewSubWorkflow ==
    \E w \in Hosts, t \in WorkflowIds :
        \E c \in SubWorkflowCalls(wf[w]) :
            /\ Alive
            /\ pending = NoTask
            /\ t = w => c = PlainCall(<<"s">>)
            /\ Len(wf[w].tasks) + Len(wf[t].tasks) <= MaxHost
            /\ LET r == newSubWorkflow(wf[w], wf[t], c.params, c.dependency, c.name)
               IN /\ call' = [op |-> "newSubWorkflow", w |-> w, workflow |-> t,
                              params |-> c.params, dependency |-> c.dependency,
                              name |-> c.name,
                              changed |-> (r.wf # wf[w] \/ r.workflow # wf[t])]
                  /\ err' = r.err
                  /\ ret' = r.ret
                  /\ wf' = IF t = w THEN [wf EXCEPT ![w] = r.wf]
                           ELSE [wf EXCEPT ![w] = r.wf, ![t] = r.workflow]
                  /\ UNCHANGED <<pending, file>>

\* w.save(workflowname)
Save ==
    \E w \in WorkflowIds, workflowname \in SaveNames :
        LET r == save(wf[w], workflowname)
        IN /\ Alive
           /\ pending = NoTask
           /\ call' = [op |-> "save", w |-> w, workflowname |-> workflowname,
                       changed |-> FALSE]
           /\ err' = r.err
           /\ file' = IF r.err = OK THEN r.file ELSE file
           /\ ret' = None
           /\ UNCHANGED <<wf, pending>>

\* Workflow.load(filename)
Load ==
    \E filename \in LoadNames :
        LET r == load(Files, filename)
        IN /\ pending = NoTask
           /\ \/ Alive
              \/ call.op = "save" /\ err = OK /\ filename = file.name
           /\ call' = [op |-> "load", filename |-> filename,
                       data |-> IF \E f \in Files : f.name = filename
                                THEN (CHOOSE f \in Files : f.name = filename).data
                                ELSE NoFile,
                       changed |-> FALSE]
           /\ err' = r.err
           /\ ret' = r.ret
           /\ UNCHANGED <<wf, pending, file>>

Next ==
    \/ TaskInit
    \/ AddDependencyPending
    \/ AddDependencyAttached
    \/ AddTask
    \/ GetTask
    \/ NewTask
    \/ NewSubWorkflow
    \/ Save
    \/ Load

Spec == Init /\ [][Next]_vars

----------------------------------------------------------------------------
(* The arguments of a Task: the constructor is handed every mapping of at most     *)
(* MaxArgs entries over ArgumentKeys and ArgumentValues, the task is asked for its *)
(* reverted arguments, attached, and cloned by newSubWorkflow.                     *)

ArgumentKeys == {<<>>, <<"k">>, <<"j">>}
ArgumentValues == {<<>>, <<"v">>, <<"a", "=", "b">>, <<"=">>}

\* the dicts: no key twice
ArgumentMaps ==
    {m \in UNION {[1..n -> ArgumentKeys \X ArgumentValues] : n \in 0..MaxArgs} :
        \A i, j \in 1..Len(m) : i # j => m[i][1] # m[j][1]}

InitArguments ==
    /\ wf = [w \in WorkflowIds |->
                IF w = 1 THEN Workflow(<<"h">>, <<"a">>, None, << <<(<<"r", "u", "n">>), (<<"y">>)>> >>)
                ELSE Workflow(<<"t">>, None, None, EmptyDict)]
    /\ pending = NoTask
    /\ \E m \in ArgumentMaps : call = [op |-> "arguments", arguments |-> m, changed |-> TRUE]
    /\ err = OK
    /\ ret = None
    /\ file = NoFile

\* t = Task("mv", arguments, "A")
TaskInitArguments ==
    /\ call.op = "arguments"
    /\ call' = [op |-> "Task", arguments |-> call.arguments, changed |-> TRUE]
    /\ err' = OK
    /\ pending' = Task(<<"m", "v">>, call.arguments, <<"A">>, EmptyDict)
    /\ ret' = None
    /\ UNCHANGED <<wf, file>>

\* t.reverted_arguments()
RevertedArguments ==
    /\ call.op = "Task"
    /\ pending # NoTask
    /\ call' = [op |-> "reverted_arguments", arguments |-> call.arguments, changed |-> TRUE]
    /\ err' = OK
    /\ ret' = reverted_arguments(pending)
    /\ UNCHANGED <<wf, pending, file>>

NextArguments ==
    \/ TaskInitArguments
    \/ RevertedArguments
    \/ AddTask
    \/ NewSubWorkflow

SpecArguments == InitArguments /\ [][NextArguments]_vars

----------------------------------------------------------------------------
(* Helpers of the properties *)

\* the name addTask checks: the given one, or the generated one for a task without
ResolvedName(w, task) ==
    IF task.name = None THEN w.name \o US \o FormatInt(w.task_name_counter) ELSE task.name

HasUnresolvedEdge(w, task) ==
    \E i \in 1..Len(task.dependencies) :
        task.dependencies[i].task \notin SeqToSet(TaskNames(w))

\* the state after a newSubWorkflow call that returned: host, template, the clones
Embedded == call.op = "newSubWorkflow" /\ err = OK
Host == wf[call.w]
Template == wf[call.workflow]
Clone(i) == Host.tasks[Len(Host.tasks) - Len(Template.tasks) + i]

----------------------------------------------------------------------------
(* C1: in every reachable state no two tasks attached to a workflow have the same  *)
(* name.                                                                           *)
C1_UniqueNames ==
    \A w \in WorkflowIds : \A i, j \in 1..Len(wf[w].tasks) :
        i # j => wf[w].tasks[i].name # wf[w].tasks[j].name

\* a workflow holds two tasks and a call has just been refused for a duplicate name
C1_Witness ==
    /\ err = DuplicateNameError
    /\ \E w \in WorkflowIds : Len(wf[w].tasks) >= 2

(* C2: every dependency edge of every attached task names a task that stands       *)
(* strictly earlier in the same workflow, addDependency after attachment included. *)
C2_EdgesPointBack ==
    \A w \in WorkflowIds : \A i \in 1..Len(wf[w].tasks) :
        \A k \in 1..Len(wf[w].tasks[i].dependencies) :
            \E j \in 1..(i - 1) : wf[w].tasks[j].name = wf[w].tasks[i].dependencies[k].task

(* C3, as claimed: addTask with a task that has an edge to a name that is not       *)
(* attached fails with UnresolvedDependencyError and leaves the workflow as it was. *)
C3_UnresolvedAlwaysReported ==
    [][(call'.op = "addTask" /\ HasUnresolvedEdge(wf[call'.w], pending))
         => (err' = UnresolvedDependencyError /\ wf' = wf)]_vars

(* C3, amended: addTask with a task that has an edge to a name that is not attached *)
(* fails and leaves the task sequence and the counter as they were; the error is    *)
(* DuplicateNameError when the resolved name of the task is already attached, and   *)
(* UnresolvedDependencyError otherwise.                                             *)
C3_UnresolvedRefused ==
    [][(call'.op = "addTask" /\ HasUnresolvedEdge(wf[call'.w], pending))
         => /\ wf' = wf
            /\ err' = IF ResolvedName(wf[call'.w], pending) \in SeqToSet(TaskNames(wf[call'.w]))
                      THEN DuplicateNameError ELSE UnresolvedDependencyError]_vars

\* addTask has refused a task whose edge names the task itself
C3_Witness ==
    /\ call.op = "addTask"
    /\ err = UnresolvedDependencyError
    /\ \E i \in 1..Len(pending.dependencies) : pending.dependencies[i].task = pending.name

(* C4: addTask with a task whose resolved name (given or generated) is the name of  *)
(* an attached task fails with DuplicateNameError and leaves the task sequence and  *)
(* the counter as they were.                                                        *)
C4_DuplicateRefused ==
    [][(call'.op = "addTask"
        /\ ResolvedName(wf[call'.w], pending) \in SeqToSet(TaskNames(wf[call'.w])))
         => (err' = DuplicateNameError /\ wf' = wf)]_vars

\* addTask has refused a task for its generated name
C4_Witness ==
    /\ call.op = "addTask"
    /\ call.unset
    /\ err = DuplicateNameError
    /\ pending.name \in SeqToSet(TaskNames(wf[call.w]))

(* C5: getTask with the name of an attached task returns that task, and getTask     *)
(* with a name no attached task has returns None; neither raises.                   *)
C5_GetTaskFinds ==
    call.op = "getTask" =>
        /\ err = OK
        /\ \A i \in 1..Len(wf[call.w].tasks) :
              wf[call.w].tasks[i].name = call.taskname => ret = wf[call.w].tasks[i]
        /\ call.taskname \notin SeqToSet(TaskNames(wf[call.w])) => ret = None

(* C6: newSubWorkflow under a non-empty label L with no dependency, on a host that  *)
(* holds none *)
(* of the names L_<t.name>, attaches one clone per template task in template order, *)
(* named L_<t.name>, with the operator of t and the edges of t retargeted to L_.    *)
C6_ClonesAttached ==
    [][(/\ call'.op = "newSubWorkflow"
        /\ call'.name \notin {None, <<>>}
        /\ call'.dependency = EmptyDict
        /\ call'.workflow # call'.w
        /\ \A i \in 1..Len(wf[call'.workflow].tasks) :
              (call'.name \o US \o wf[call'.workflow].tasks[i].name)
                  \notin SeqToSet(TaskNames(wf[call'.w])))
         => LET L == call'.name
                host == wf[call'.w].tasks
                tpl == wf[call'.workflow].tasks
                now == wf'[call'.w].tasks
            IN /\ err' = OK
               /\ Len(now) = Len(host) + Len(tpl)
               /\ SubSeq(now, 1, Len(host)) = host
               /\ \A i \in 1..Len(tpl) :
                     LET c == now[Len(host) + i]
                     IN /\ c.name = L \o US \o tpl[i].name
                        /\ c.operator = tpl[i].operator
                        /\ c.dependencies =
                              [k \in 1..Len(tpl[i].dependencies) |->
                                  [tpl[i].dependencies[k] EXCEPT !.task = L \o US \o Format(@)]]
                        /\ \A k \in 1..Len(c.dependencies) :
                              \E j \in 1..(i - 1) :
                                  now[Len(host) + j].name = c.dependencies[k].task]_vars

(* C7: a successful newSubWorkflow returns, in clone order, exactly the clones of   *)
(* the template tasks whose name is the target of no dependency edge of the         *)
(* template.                                                                        *)
TemplateTargets ==
    UNION {{Template.tasks[i].dependencies[k].task :
               k \in 1..Len(Template.tasks[i].dependencies)} : i \in 1..Len(Template.tasks)}

RECURSIVE LeafClones(_)
LeafClones(i) ==
    IF i > Len(Template.tasks) THEN <<>>
    ELSE (IF Template.tasks[i].name \in TemplateTargets THEN <<>> ELSE <<Clone(i)>>)
         \o LeafClones(i + 1)

C7_ReturnsLeaves == Embedded => ret = LeafClones(1)

(* C8: the clone of a template task with arguments m under params p has exactly the *)
(* mapping of m with each key and each value replaced when its first $ match is a   *)
(* key of p: as many arguments as m, and no replaced key left.                      *)
Substituted(p, str) ==
    IF search(str) # 0 /\ DictHas(p, findall0(str))
    THEN SubSeq(str, 1, search(str) - 1) \o DictGet(p, findall0(str)) ELSE str

C8_ArgumentsSubstituted ==
    Embedded =>
        \A i \in 1..Len(Template.tasks) :
            LET m == reverted_arguments(Template.tasks[i])
            IN reverted_arguments(Clone(i)) =
                   [k \in 1..Len(m) |->
                       <<Substituted(call.params, m[k][1]), Substituted(call.params, m[k][2])>>]

(* C9: newSubWorkflow with a dependency map of the key task, or of the keys task    *)
(* and argument, succeeds; every clone of a template task without dependencies has  *)
(* exactly one edge, to X, and the clones of the other template tasks have none.    *)
AnchorMaps ==
    {d \in DependencyChoices(wf[1]) :
        /\ d # EmptyDict
        /\ DictHas(d, <<"t", "a", "s", "k">>)
        /\ Len(d) <= 2}

C9_RootsAnchored ==
    (call.op = "newSubWorkflow" /\ call.workflow # call.w /\ call.dependency \in AnchorMaps)
        => /\ err = OK
           /\ \A i \in 1..Len(Template.tasks) :
                 LET X == DictGet(call.dependency, <<"t", "a", "s", "k">>).name
                     toX == {k \in 1..Len(Clone(i).dependencies) :
                                Clone(i).dependencies[k].task = X}
                 IN IF Len(Template.tasks[i].dependencies) = 0
                    THEN /\ Cardinality(toX) = 1
                         /\ \A k \in toX :
                               Clone(i).dependencies[k].type =
                                   (IF Len(call.dependency) = 1 THEN "embedded" ELSE "all")
                    ELSE toX = {}

(* C10: newSubWorkflow with a dependency map of three keys, or a non-empty one      *)
(* without the key task, fails with ConfigError for every template and attaches no  *)
(* clone.                                                                           *)
C10_BadDependencyRefused ==
    [][(/\ call'.op = "newSubWorkflow"
        /\ call'.workflow # call'.w
        /\ call'.name # None
        /\ \/ Len(call'.dependency) = 3
           \/ (call'.dependency # EmptyDict
               /\ ~DictHas(call'.dependency, <<"t", "a", "s", "k">>)))
         => (err' \in ConfigError /\ wf' = wf)]_vars

(* C11: newSubWorkflow with the name omitted, an empty dependency map and a         *)
(* template whose tasks have no dependencies succeeds and attaches the clone of the *)
(* template task at position i under the name <host name>_<i>_<task name>.          *)
C11_UnnamedEmbedding ==
    [][(/\ call'.op = "newSubWorkflow"
        /\ call'.name = None
        /\ call'.dependency = EmptyDict
        /\ call'.workflow # call'.w
        /\ Len(wf[call'.workflow].tasks) > 0
        /\ \A i \in 1..Len(wf[call'.workflow].tasks) :
              /\ Len(wf[call'.workflow].tasks[i].dependencies) = 0
              /\ (wf[call'.w].name \o US \o FormatInt(i) \o US
                     \o wf[call'.workflow].tasks[i].name)
                    \notin SeqToSet(TaskNames(wf[call'.w])))
         => LET host == wf[call'.w]
                tpl == wf[call'.workflow].tasks
                now == wf'[call'.w].tasks
            IN /\ err' = OK
               /\ Len(now) = Len(host.tasks) + Len(tpl)
               /\ \A i \in 1..Len(tpl) :
                     now[Len(host.tasks) + i].name =
                         host.name \o US \o FormatInt(i) \o US \o tpl[i].name]_vars

(* C12: addDependency(target) with a Task target and the argument omitted appends   *)
(* exactly one edge of type embedded, without an argument, to target.name;          *)
(* addDependency(target, a) with a non-empty string a appends exactly one edge of   *)
(* type all bound to a; the edges the task had are kept, in order, before the new   *)
(* one.                                                                             *)
C12_EdgeAppended ==
    [][(call'.op = "addDependency" /\ call'.target.isTask /\ call'.argument # <<>>)
         => LET edge == IF call'.argument = None
                        THEN [type |-> "embedded", argument |-> Absent,
                              task |-> call'.target.name]
                        ELSE [type |-> "all", argument |-> call'.argument,
                              task |-> call'.target.name]
            IN /\ err' = OK
               /\ \/ /\ pending # NoTask
                     /\ pending' = [pending EXCEPT !.dependencies = Append(@, edge)]
                     /\ wf' = wf
                  \/ /\ pending' = pending
                     /\ \E w \in WorkflowIds : \E i \in 1..Len(wf[w].tasks) :
                           wf' = [wf EXCEPT ![w].tasks[i].dependencies = Append(@, edge)]]_vars

(* C13: newTask with a dependencies map whose keys are names of tasks attached to   *)
(* the workflow succeeds: it attaches and returns a task with one edge per entry,   *)
(* in map order, to the named task, of type all bound to the argument when one is   *)
(* given and of type embedded when none is.                                         *)
C13_NewTaskWithDependencies ==
    [][(/\ call'.op = "newTask"
        /\ call'.dependencies # EmptyDict
        /\ \A k \in 1..Len(call'.dependencies) :
              call'.dependencies[k][1] \in SeqToSet(TaskNames(wf[call'.w]))
        /\ call'.kwargs = EmptyDict
        /\ (IF call'.name = None
            THEN wf[call'.w].name \o US \o FormatInt(wf[call'.w].task_name_counter)
            ELSE call'.name) \notin SeqToSet(TaskNames(wf[call'.w])))
         => LET d == call'.dependencies
                now == wf'[call'.w].tasks
            IN /\ err' = OK
               /\ Len(now) = Len(wf[call'.w].tasks) + 1
               /\ ret' = now[Len(now)]
               /\ ret'.dependencies =
                     [k \in 1..Len(d) |->
                         IF d[k][2] = None
                         THEN [type |-> "embedded", argument |-> Absent, task |-> d[k][1]]
                         ELSE [type |-> "all", argument |-> d[k][2], task |-> d[k][1]]]]_vars

(* C16: addTask with a task whose name is unset names it <workflow name>_<c>, c the *)
(* naming counter at the call; the counter starts at 1, grows by exactly 1 on every *)
(* successful addTask, of a named or an unnamed task, and is unchanged by a failed  *)
(* one: in every reachable state it is the number of attached tasks plus 1.         *)
CounterMatches(w) == w.task_name_counter = Len(w.tasks) + 1

C16_NamingCounter ==
    [][/\ \A w \in WorkflowIds : CounterMatches(wf[w]) /\ CounterMatches(wf'[w])
       /\ call'.op = "addTask" =>
             LET self == wf[call'.w]
                 now == wf'[call'.w]
             IN /\ call'.unset =>
                      (IF err' = OK THEN now.tasks[Len(now.tasks)].name ELSE pending'.name)
                          = self.name \o US \o FormatInt(self.task_name_counter)
                /\ now.task_name_counter =
                      self.task_name_counter + (IF err' = OK THEN 1 ELSE 0)]_vars

\* a named task has been attached after an unnamed one
C16_Witness ==
    /\ call.op = "addTask"
    /\ err = OK
    /\ ~call.unset
    /\ wf[call.w].task_name_counter = 3
    /\ wf[call.w].tasks[1].name = wf[call.w].name \o US \o FormatInt(1)

(* C19: when addTask with a task whose name is unset fails, for a duplicate of the  *)
(* generated name or for an unresolved edge, the task sequence and the counter are  *)
(* unchanged and the task object keeps the generated name <workflow name>_<c>.      *)
C19_FailedKeepsName ==
    [][(call'.op = "addTask" /\ call'.unset /\ err' # OK)
         => /\ err' \in {DuplicateNameError, UnresolvedDependencyError}
            /\ wf' = wf
            /\ pending' = [pending EXCEPT !.name = wf[call'.w].name \o US
                                             \o FormatInt(wf[call'.w].task_name_counter)]]_vars

\* an unnamed task has been refused for an unresolved edge and carries the name
C19_Witness ==
    /\ call.op = "addTask"
    /\ call.unset
    /\ err = UnresolvedDependencyError
    /\ pending.name = wf[call.w].name \o US \o FormatInt(wf[call.w].task_name_counter)

(* C20: when newSubWorkflow fails at the clone of the template task at position k,  *)
(* for a duplicate name or an unresolved edge, the clones of the template tasks     *)
(* 1..k-1 stay attached after the tasks the host had, the counter of the host is    *)
(* advanced by k-1, no two tasks of the host share a name and every edge of an      *)
(* attached clone names a task attached before it.                                  *)
C20_NotAtomic ==
    [][(call'.op = "newSubWorkflow" /\ err' \in {DuplicateNameError, UnresolvedDependencyError})
         => LET host == wf[call'.w]
                now == wf'[call'.w]
                tpl == wf[call'.workflow].tasks
                n == Len(now.tasks) - Len(host.tasks)
                L == call'.name
                CloneName(i) == IF L = <<>>
                                THEN host.name \o US \o FormatInt(i) \o US \o tpl[i].name
                                ELSE L \o US \o tpl[i].name
                names == SeqToSet(TaskNames(now))
            IN /\ n >= 0 /\ n < Len(tpl)
               /\ SubSeq(now.tasks, 1, Len(host.tasks)) = host.tasks
               /\ now.task_name_counter = host.task_name_counter + n
               /\ \A i \in 1..n :
                     /\ now.tasks[Len(host.tasks) + i].name = CloneName(i)
                     /\ now.tasks[Len(host.tasks) + i].operator = tpl[i].operator
                     /\ \A e \in 1..Len(now.tasks[Len(host.tasks) + i].dependencies) :
                           \E j \in 1..(Len(host.tasks) + i - 1) :
                               now.tasks[j].name
                                   = now.tasks[Len(host.tasks) + i].dependencies[e].task
               /\ \A i, j \in 1..Len(now.tasks) :
                     i # j => now.tasks[i].name # now.tasks[j].name
               /\ IF err' = DuplicateNameError
                  THEN CloneName(n + 1) \in names
                  ELSE \E e \in 1..Len(tpl[n + 1].dependencies) :
                           (L \o US \o Format(tpl[n + 1].dependencies[e].task)) \notin names]_vars

\* an embedding has failed after it attached a clone
C20_Witness ==
    /\ call.op = "newSubWorkflow"
    /\ err = UnresolvedDependencyError
    /\ Len(wf[call.w].tasks) > 0
    /\ wf[call.w].tasks[Len(wf[call.w].tasks)].name
           = wf[call.w].name \o US \o FormatInt(1) \o US \o wf[call.workflow].tasks[1].name

(* C14: for a workflow built by successful addTask, newTask and newSubWorkflow      *)
(* calls, save followed by load of the saved document succeeds and yields a         *)
(* workflow with the same name, author, abstract and options and the same tasks in  *)
(* the same order, each with the same name, operator, type, canonical arguments     *)
(* (a value that contains the separator included) and dependency edges.             *)
EdgesPointBack(tasks) ==
    \A i \in 1..Len(tasks) : \A k \in 1..Len(tasks[i].dependencies) :
        \E j \in 1..(i - 1) : tasks[j].name = tasks[i].dependencies[k].task

C14_SaveLoadRoundTrip ==
    \A w \in WorkflowIds :
        (/\ call.op = "load"
         /\ EdgesPointBack(wf[w].tasks)
         /\ call.data = save(wf[w], <<"w">>).file.data)
            => /\ err = OK
               /\ ret.name = wf[w].name
               /\ ret.author = wf[w].author
               /\ ret.abstract = wf[w].abstract
               /\ ret.options = wf[w].options
               /\ Len(ret.tasks) = Len(wf[w].tasks)
               /\ \A i \in 1..Len(wf[w].tasks) :
                     /\ ret.tasks[i].name = wf[w].tasks[i].name
                     /\ ret.tasks[i].operator = wf[w].tasks[i].operator
                     /\ ret.tasks[i].type = wf[w].tasks[i].type
                     /\ ret.tasks[i].arguments = wf[w].tasks[i].arguments
                     /\ ret.tasks[i].dependencies = wf[w].tasks[i].dependencies

(* C17: load of a document whose task list names a task twice, or has a task with   *)
(* an edge whose target is not the name of an earlier task of the list, fails with  *)
(* DuplicateNameError or UnresolvedDependencyError, the one that matches when only  *)
(* one of the two defects is there, and returns no workflow; a workflow that load   *)
(* returns has unique task names and edges that name earlier tasks.                 *)
HasDuplicate(tasks) ==
    \E i, j \in 1..Len(tasks) : i # j /\ tasks[i].name = tasks[j].name

C17_LoadValidates ==
    (call.op = "load" /\ {"name", "tasks"} \subseteq DOMAIN call.data)
        => LET tasks == call.data.tasks
           IN /\ (HasDuplicate(tasks) \/ ~EdgesPointBack(tasks))
                    => (err \in {DuplicateNameError, UnresolvedDependencyError} /\ ret = None)
              /\ (HasDuplicate(tasks) /\ EdgesPointBack(tasks)) => err = DuplicateNameError
              /\ (~HasDuplicate(tasks) /\ ~EdgesPointBack(tasks))
                    => err = UnresolvedDependencyError
              /\ err = OK => (~HasDuplicate(ret.tasks) /\ EdgesPointBack(ret.tasks))

\* a document that names a task twice has been refused
C17_Witness ==
    /\ call.op = "load"
    /\ err = DuplicateNameError
    /\ "tasks" \in DOMAIN call.data
    /\ HasDuplicate(call.data.tasks)

(* C15: for every ordered mapping m of string keys to string values in which no key *)
(* and no value contains the separator, the empty mapping and empty values          *)
(* included, a Task constructed with arguments m stores the list of the strings     *)
(* key=value in the order of m, and its reverted arguments are exactly m.           *)
SeparatorFree(str) == \A i \in 1..Len(str) : str[i] # "="

C15_FlattenRevert ==
    (/\ call.op \in {"Task", "reverted_arguments"}
     /\ pending # NoTask
     /\ \A i \in 1..Len(call.arguments) :
           SeparatorFree(call.arguments[i][1]) /\ SeparatorFree(call.arguments[i][2]))
        => /\ pending.arguments =
                 [i \in 1..Len(call.arguments) |->
                     call.arguments[i][1] \o <<"=">> \o call.arguments[i][2]]
           /\ call.op = "reverted_arguments" => ret = call.arguments

\* the reverted arguments of a task with two arguments, an empty value among them
C15_Witness ==
    /\ call.op = "reverted_arguments"
    /\ Len(call.arguments) = 2
    /\ \A i \in 1..2 : SeparatorFree(call.arguments[i][2])
    /\ call.arguments[1][2] = <<>>
    /\ ret = call.arguments

(* C18: the reverted arguments split each string key=value on the first separator   *)
(* only: for a task constructed with separator-free keys they map every key to the  *)
(* whole of its value, a value that contains the separator included, and the clone  *)
(* that newSubWorkflow makes of the task with empty params has the same arguments.  *)
C18_SplitsOnFirst ==
    /\ (call.op = "reverted_arguments"
        /\ \A i \in 1..Len(call.arguments) : SeparatorFree(call.arguments[i][1]))
          => ret = call.arguments
    /\ (Embedded /\ call.params = EmptyDict)
          => \A i \in 1..Len(Template.tasks) :
                 Clone(i).arguments = Template.tasks[i].arguments

(* C21: newSubWorkflow, whether it succeeds or fails, leaves the template as it was: *)
(* the task sequence, the name, operator, arguments and dependency edges of every    *)
(* template task (the rewritten edges of the clones are copies) and the naming       *)
(* counter, so that a second embedding of the template clones the same tasks.        *)
C21_TemplateUnchanged ==
    [][call'.op = "newSubWorkflow" => wf'[call'.workflow] = wf[call'.workflow]]_vars

\* a clone carries the rewritten edge and the template task the edge as it was
C21_Witness ==
    /\ Embedded
    /\ call.name = <<"s">>
    /\ \E i \in 1..Len(Template.tasks) :
          /\ Len(Template.tasks[i].dependencies) = 1
          /\ Clone(i).dependencies[1].task
                 = <<"s", "_">> \o Template.tasks[i].dependencies[1].task
          /\ \E j \in 1..(i - 1) :
                Template.tasks[j].name = Template.tasks[i].dependencies[1].task

====
